---- MODULE Spec2Model ----
(***************************************************************************)
(* Model of src/Assignment5/renderer.py: the per-pixel StatusStack and     *)
(* ResultStack, the task dispatch loop of Renderer.ray_color, the local    *)
(* shading of Renderer.bling_phong and the parallel loop of                *)
(* Renderer.render.                                                        *)
(*                                                                         *)
(* Floats (ti.f32) are fixed-point integers with FP units to 1.0; a colour *)
(* or a vector is a triple of such integers.  A ray is an abstract id: the *)
(* geometry (models.py) is an external collaborator, so the scene is the   *)
(* function `world` from ray ids to the hit record world.hit returns.      *)
(***************************************************************************)
EXTENDS Integers, Sequences, FiniteSets, TLC

\* ------------------------------------------------------------- bounds
MaxDepthBound == 2
MaxStackBound == 5
NRays == 3
NPixels == 2
MaxOps == 5
MaxStackOnly == 3
MaxLights == 2

\* ------------------------------------------------ program constants
TASK_PROCESS == 0
TASK_MERGE == 1
FP == 1000
ZeroRay == 0

DIFFUSE_AND_GLOSSY == "DIFFUSE_AND_GLOSSY"
REFLECTION == "REFLECTION"
REFLECTION_AND_REFRACTION == "REFLECTION_AND_REFRACTION"

\* ------------------------------------------------ fixed-point floats
Max2(a, b) == IF a >= b THEN a ELSE b
Min2(a, b) == IF a <= b THEN a ELSE b
Abs(a) == IF a >= 0 THEN a ELSE 0 - a

\* a * b and a / b on fixed-point numbers (rounded toward -infinity)
FMul(a, b) == (a * b) \div FP
FDiv(a, b) == (a * FP) \div b

Vec(x, y, z) == <<x, y, z>>
VAdd(u, v) == <<u[1] + v[1], u[2] + v[2], u[3] + v[3]>>
VSub(u, v) == <<u[1] - v[1], u[2] - v[2], u[3] - v[3]>>
VNeg(u) == <<0 - u[1], 0 - u[2], 0 - u[3]>>
\* scalar * vector, vector * vector (componentwise), dot product
VScale(s, u) == <<FMul(s, u[1]), FMul(s, u[2]), FMul(s, u[3])>>
VMul(u, v) == <<FMul(u[1], v[1]), FMul(u[2], v[2]), FMul(u[3], v[3])>>
Dot(u, v) == (u[1] * v[1] + u[2] * v[2] + u[3] * v[3]) \div FP

\* integer square root, for norms and distances
ISqrtBetween[n \in Nat, lo \in Nat, hi \in Nat] ==
  IF lo >= hi THEN lo
  ELSE LET mid == (lo + hi + 1) \div 2
       IN  IF mid * mid <= n THEN ISqrtBetween[n, mid, hi]
           ELSE ISqrtBetween[n, lo, mid - 1]
ISqrt(n) == ISqrtBetween[n, 0, Min2(n, 46340)]
Norm(u) == ISqrt(u[1] * u[1] + u[2] * u[2] + u[3] * u[3])
Normalized(u) ==
  LET l == Norm(u)
  IN  IF l = 0 THEN u ELSE <<FDiv(u[1], l), FDiv(u[2], l), FDiv(u[3], l)>>

\* x ** n for a natural exponent n
RECURSIVE FPow(_, _)
FPow(x, n) == IF n = 0 THEN FP ELSE FMul(x, FPow(x, n - 1))

Color(r, g, b) == <<r, g, b>>
Black == Color(0, 0, 0)

\* Renderer.__init__'s default background_color, in FP units
DefaultBackground == Color(235, 675, 843)

\* ------------------------------------------------------------- state
VARIABLES
  W,              \* Renderer.W: the number of pixels (H = 1), one lane each
  max_depth,      \* Renderer.max_depth
  max_stack_size, \* Renderer.max_stack_size: the capacity of both stacks
  background_color,
  world,          \* the scene: ray id -> the HitRecord world.hit returns
  status_ptr,     \* StatusStack.ptr[i, j]
  status_stack,   \* StatusStack.stack[i, j, k]
  result_ptr,     \* ResultStack.ptr[i, j]
  result_stack,   \* ResultStack.stack[i, j, k]
  frame_buf,      \* Renderer.frame_buf[i, j]
  pc,             \* each lane's position in render / ray_color
  ray,            \* each lane's primary ray
  drawn,          \* the random unit vectors each lane has drawn, in order
  executed,       \* how many task frames each lane has popped and run
  ev,             \* the operation the last step performed, with what it read
  ghost,          \* the abstract LIFO sequences the stack contract refers to
  sh,             \* the state of one bling_phong evaluation
  fresnel         \* the state of one evaluation of kr

vars == <<W, max_depth, max_stack_size, background_color, world, status_ptr,
          status_stack, result_ptr, result_stack, frame_buf, pc, ray, drawn,
          executed, ev, ghost, sh,
          fresnel>>

Pixels == 0..(W - 1)
Slots == 0..(max_stack_size - 1)
Rays == 1..NRays

\* ------------------------------------------------------ StatusFrame
StatusFrame(task_type, depth, r, kr) ==
  [task_type |-> task_type, depth |-> depth, ray |-> r, kr |-> kr]

\* a field's cell before anything was stored in it
ZeroFrame == StatusFrame(0, 0, ZeroRay, 0)

\* ------------------------------------------------------ StatusStack
\* Every operator takes the fields (ptr, stack), the capacity the stack was
\* constructed with (its self.max_depth) and the pixel; the mutating ones
\* return the fields as the call leaves them, with the value returned.

StatusStack_clear(ptr, p) == [ptr EXCEPT ![p] = -1]

StatusStack_empty(ptr, p) == ptr[p] <= -1

StatusStack_full(ptr, cap, p) == ptr[p] >= cap

\* stack[i, j, ptr[i, j]]; `oob` is what the read yields when ptr[i, j] is no
\* index of the pixel's slots (no bounds are checked)
StatusStack_top(ptr, stack, p, oob) ==
  IF ptr[p] \in DOMAIN stack[p] THEN stack[p][ptr[p]] ELSE oob

\* push with the guard `ptr + 2 < max_depth`: one slot is never used
StatusStack_push_short(ptr, stack, cap, p, value) ==
  IF ptr[p] + 2 < cap
  THEN [succeed |-> TRUE,
        ptr |-> [ptr EXCEPT ![p] = @ + 1],
        stack |-> [stack EXCEPT ![p][ptr[p] + 1] = value]]
  ELSE [succeed |-> FALSE, ptr |-> ptr, stack |-> stack]

\* push with the guard `ptr + 1 <= max_depth`: a full stack still accepts
StatusStack_push_le(ptr, stack, cap, p, value) ==
  IF ptr[p] + 1 <= cap
  THEN [succeed |-> TRUE,
        ptr |-> [ptr EXCEPT ![p] = @ + 1],
        stack |-> IF ptr[p] + 1 \in DOMAIN stack[p]
                  THEN [stack EXCEPT ![p][ptr[p] + 1] = value] ELSE stack]
  ELSE [succeed |-> FALSE, ptr |-> ptr, stack |-> stack]

StatusStack_push(ptr, stack, cap, p, value) ==
  IF ptr[p] + 1 < cap
  THEN [succeed |-> TRUE,
        ptr |-> [ptr EXCEPT ![p] = @ + 1],
        stack |-> [stack EXCEPT ![p][ptr[p] + 1] = value]]
  ELSE [succeed |-> FALSE, ptr |-> ptr, stack |-> stack]

\* pop without the guard: the pointer goes below -1
StatusStack_pop_always(ptr, p) ==
  [succeed |-> TRUE, ptr |-> [ptr EXCEPT ![p] = @ - 1]]

StatusStack_pop(ptr, p) ==
  IF ptr[p] - 1 >= -1
  THEN [succeed |-> TRUE, ptr |-> [ptr EXCEPT ![p] = @ - 1]]
  ELSE [succeed |-> FALSE, ptr |-> ptr]

\* ------------------------------------------------------ ResultStack
ResultStack_clear(ptr, p) == [ptr EXCEPT ![p] = -1]

ResultStack_empty(ptr, p) == ptr[p] <= -1

ResultStack_full(ptr, cap, p) == ptr[p] >= cap

ResultStack_top(ptr, stack, p, oob) ==
  IF ptr[p] \in DOMAIN stack[p] THEN stack[p][ptr[p]] ELSE oob

\* push with the guard `ptr + 1 <= max_depth`: the pointer can reach the
\* capacity
ResultStack_push_le(ptr, stack, cap, p, value) ==
  IF ptr[p] + 1 <= cap
  THEN [succeed |-> TRUE,
        ptr |-> [ptr EXCEPT ![p] = @ + 1],
        stack |-> IF ptr[p] + 1 \in DOMAIN stack[p]
                  THEN [stack EXCEPT ![p][ptr[p] + 1] = value] ELSE stack]
  ELSE [succeed |-> FALSE, ptr |-> ptr, stack |-> stack]

ResultStack_push(ptr, stack, cap, p, value) ==
  IF ptr[p] + 1 < cap
  THEN [succeed |-> TRUE,
        ptr |-> [ptr EXCEPT ![p] = @ + 1],
        stack |-> [stack EXCEPT ![p][ptr[p] + 1] = value]]
  ELSE [succeed |-> FALSE, ptr |-> ptr, stack |-> stack]

ResultStack_pop(ptr, p) ==
  IF ptr[p] - 1 >= -1
  THEN [succeed |-> TRUE, ptr |-> [ptr EXCEPT ![p] = @ - 1]]
  ELSE [succeed |-> FALSE, ptr |-> ptr]

\* ------------------------------------------------- scene and lights
\* HitRecord and Material are produced by the geometry collaborator; a scene
\* entry pairs what the kernel reads of a ray: its direction rd, the record
\* world.hit returns for it, and the records world.hit returns for the shadow
\* rays bling_phong casts from the hit point, one per point light.
Material(m_type, ior, ka, kd, ks, spec_exp, diffuse_color) ==
  [m_type |-> m_type, ior |-> ior, ka |-> ka, kd |-> kd, ks |-> ks,
   spec_exp |-> spec_exp, diffuse_color |-> diffuse_color]

HitRecord(is_hit, t, pos, N, front_face, mat) ==
  [is_hit |-> is_hit, t |-> t, pos |-> pos, N |-> N,
   front_face |-> front_face, mat |-> mat]

ShadowRecord(is_hit, t) == [is_hit |-> is_hit, t |-> t]

PointLight(pos, I) == [pos |-> pos, I |-> I]

Up == Vec(0, 0, FP)
Origin == Vec(0, 0, 0)
Matte(spec_exp) ==
  Material(DIFFUSE_AND_GLOSSY, 1300, 5, 800, 200, spec_exp, Color(600, 700, 800))
Mirror == Material(REFLECTION, 1500, 5, 800, 200, 2, Color(200, 200, 200))
Glass == Material(REFLECTION_AND_REFRACTION, 1500, 5, 800, 200, 2, Color(200, 200, 200))

\* the lights of the scene, and the ambient light's Ia
LightAbove == PointLight(Vec(0, 0, 2 * FP), Color(500, 500, 500))
LightSide == PointLight(Vec(1600, 0, 1200), Color(500, 500, 500))
LightGrazing == PointLight(Vec(2 * FP, 0, 0), Color(500, 500, 500))
SceneLights == <<LightSide, LightGrazing>>
AmbientIa == Color(10 * FP, 10 * FP, 10 * FP)

NoShadow == ShadowRecord(FALSE, 0)
Occluder == ShadowRecord(TRUE, FP)
Beyond == ShadowRecord(TRUE, 3 * FP)

SceneEntry(rd, rec, shadow) == [rd |-> rd, rec |-> rec, shadow |-> shadow]

\* what a ray can meet: nothing, a lit or a shadowed matte surface, a mirror
\* met head-on, glass entered obliquely
Entries ==
  { SceneEntry(Vec(0, 0, 0 - FP),
               HitRecord(FALSE, 0, Origin, Origin, FALSE,
                         Material(DIFFUSE_AND_GLOSSY, 0, 0, 0, 0, 0, Black)),
               <<NoShadow, NoShadow>>),
    SceneEntry(Vec(0, 0, 0 - FP),
               HitRecord(TRUE, FP, Origin, Up, TRUE, Matte(2)),
               <<NoShadow, Beyond>>),
    SceneEntry(Vec(600, 0, -800),
               HitRecord(TRUE, FP, Origin, Up, TRUE, Matte(1)),
               <<Occluder, Occluder>>),
    SceneEntry(Vec(0, 0, 0 - FP),
               HitRecord(TRUE, FP, Origin, Up, TRUE, Mirror),
               <<NoShadow, NoShadow>>),
    SceneEntry(Vec(800, 0, -600),
               HitRecord(TRUE, FP, Origin, Up, TRUE, Glass),
               <<NoShadow, NoShadow>>) }

\* HittableList.hit(ray, tm.inf) for the rays the kernel casts
WorldHit(r) == world[r].rec
RayDir(r) == world[r].rd

\* The ray a reflective hit spawns is a function of the incoming ray, the hit
\* and (for the reflection) the random unit vector drawn: ray ids are closed
\* under both.  `f` is the draw.
ReflectRay(r, f) == ((2 * r - 1 + f) % NRays) + 1
RefractRay(r) == ((2 * r) % NRays) + 1

\* what random_unit_vector() can return, as far as the spawned ray goes
Fuzz == {0, 1}

\* --------------------------------------------------------- Renderer
reflect(v, n) == VSub(v, VScale(2 * Dot(v, n), n))

reflectance(cosine, ref_idx) ==
  LET r0a == FDiv(FP - ref_idx, FP + ref_idx)
      r0 == FMul(r0a, r0a)
  IN  r0 + FMul(FP - r0, FPow(FP - cosine, 5))

\* One iteration of bling_phong's loop over the point lights: `acc` holds
\* ambient_color, diffuse_color and specular_color; shadow_rec is what
\* world.hit returns for the shadow ray toward `light`.
InShadow(rec, light, shadow_rec) ==
  LET r == Norm(VSub(light.pos, rec.pos))
  IN  shadow_rec.is_hit /\ shadow_rec.t < r

ShadeLight(acc, rec, light, Ia, shadow_rec) ==
  LET light_dir == Normalized(VSub(light.pos, rec.pos))
      in_shadow == InShadow(rec, light, shadow_rec)
      lambert == Max2(0, Dot(light_dir, rec.N))
      reflect_dir == Normalized(reflect(VNeg(light_dir), rec.N))
      phong == FPow(Max2(0, 0 - Dot(reflect_dir, light_dir)), rec.mat.spec_exp)
  IN  [ambient |-> VScale(rec.mat.ka, Ia),
       diffuse |-> VAdd(acc.diffuse,
                        IF in_shadow THEN Vec(0, 0, 0)
                        ELSE Vec(lambert, lambert, lambert)),
       specular |-> VAdd(acc.specular, VScale(phong, light.I))]

ShadeInit == [ambient |-> Black, diffuse |-> Black, specular |-> Black]

ShadeCombine(acc, rec) ==
  VAdd(VAdd(acc.ambient,
            VMul(VScale(rec.mat.kd, rec.mat.diffuse_color), acc.diffuse)),
       VScale(rec.mat.ks, acc.specular))

RECURSIVE ShadeLights(_, _, _, _, _)
ShadeLights(rec, lights, Ia, shadows, n) ==
  IF n = 0 THEN ShadeInit
  ELSE ShadeLight(ShadeLights(rec, lights, Ia, shadows, n - 1),
                  rec, lights[n], Ia, shadows[n])

bling_phong(rec, lights, Ia, shadows) ==
  ShadeCombine(ShadeLights(rec, lights, Ia, shadows, Len(lights)), rec)

\* lines 304-309: the kr of a hit on a reflective material, from the ray's
\* direction and the hit record
Fresnel(ray_rd, rec) ==
  LET rd == Normalized(ray_rd)
      ref_idx == IF rec.front_face THEN FDiv(FP, rec.mat.ior) ELSE rec.mat.ior
      cos_theta == Max2(Min2(0 - Dot(rd, rec.N), FP), 0 - FP)
  IN  reflectance(cos_theta, ref_idx)

\* Fresnel and bling_phong are functions of what the scene holds for the ray
\* alone: they are tabulated over the entries a scene is made of
FresnelOf ==
  [e \in Entries |-> IF e.rec.is_hit /\ e.rec.mat.ior > 0
                     THEN Fresnel(e.rd, e.rec) ELSE 0]
ShadedOf ==
  [e \in Entries |-> bling_phong(e.rec, SceneLights, AmbientIa, e.shadow)]

\* ------------------------------------------------------- the memory
\* The fields a lane's step reads and writes, as one value: the steps of
\* ray_color are functions from memory to memory.
Mem ==
  [status_ptr |-> status_ptr, status_stack |-> status_stack,
   result_ptr |-> result_ptr, result_stack |-> result_stack,
   frame_buf |-> frame_buf, pc |-> pc, drawn |-> drawn,
   executed |-> executed, ev |-> ev]

Apply(M) ==
  /\ status_ptr' = M.status_ptr
  /\ status_stack' = M.status_stack
  /\ result_ptr' = M.result_ptr
  /\ result_stack' = M.result_stack
  /\ frame_buf' = M.frame_buf
  /\ pc' = M.pc
  /\ drawn' = M.drawn
  /\ executed' = M.executed
  /\ ev' = M.ev

\* what the last step did: op on lane p; sn and rn are the numbers of entries
\* the task and result stacks held before it, failed the number of pushes that
\* returned False, hits the number of world.hit calls, reads the indices of the
\* result-stack slots top() read, a and b the values of the first and second
\* read, val the value pushed or returned
Event(op, p) ==
  [op |-> op, p |-> p, stack |-> "", ok |-> TRUE, sn |-> 0, rn |-> 0,
   failed |-> 0, hits |-> 0, reads |-> {}, a |-> Black, b |-> Black,
   kr |-> 0, val |-> Black, depth |-> 0, by |-> ""]

Failures(results) ==
  Cardinality({k \in DOMAIN results : ~results[k].succeed})

\* ------------------------------------------------ Renderer.ray_color
\* `while not self.status_stack.empty(i, j)`
LoopTest(M, p) ==
  [M EXCEPT !.pc[p] = IF StatusStack_empty(M.status_ptr, p)
                      THEN "drained" ELSE "loop"]

\* lines 283-287: clear both stacks, push the primary PROCESS frame
RayColorStart(M, p) ==
  LET sp0 == StatusStack_clear(M.status_ptr, p)
      rp0 == ResultStack_clear(M.result_ptr, p)
      frame == StatusFrame(TASK_PROCESS, 0, ray[p], FP)
      s1 == StatusStack_push(sp0, M.status_stack, max_stack_size, p, frame)
  IN  LoopTest([M EXCEPT !.status_ptr = s1.ptr,
                         !.status_stack = s1.stack,
                         !.result_ptr = rp0,
                         !.drawn[p] = <<>>,
                         !.executed[p] = 0,
                         !.ev = [Event("start", p) EXCEPT
                                   !.failed = Failures(<<s1>>)]], p)

\* lines 289-290: frame = top(); pop()
TopFrame(M, p) == StatusStack_top(M.status_ptr, M.status_stack, p, ZeroFrame)

Popped(M, p) ==
  [M EXCEPT !.status_ptr = StatusStack_pop(M.status_ptr, p).ptr,
            !.executed[p] = @ + 1]

StepEvent(M, p, op) ==
  [Event(op, p) EXCEPT !.sn = M.status_ptr[p] + 1,
                       !.rn = M.result_ptr[p] + 1,
                       !.depth = TopFrame(M, p).depth]

\* the depth limit contributing the background instead of black
ProcessDepthLimit_background(M, p) ==
  LET M1 == Popped(M, p)
      r1 == ResultStack_push(M1.result_ptr, M1.result_stack, max_stack_size,
                             p, background_color)
  IN  LoopTest([M1 EXCEPT !.result_ptr = r1.ptr,
                          !.result_stack = r1.stack,
                          !.ev = [StepEvent(M, p, "depth") EXCEPT
                                    !.failed = Failures(<<r1>>),
                                    !.val = background_color]], p)

\* lines 293-295: a PROCESS frame at depth >= max_depth
ProcessDepthLimit(M, p) ==
  LET M1 == Popped(M, p)
      r1 == ResultStack_push(M1.result_ptr, M1.result_stack, max_stack_size,
                             p, Color(0, 0, 0))
  IN  LoopTest([M1 EXCEPT !.result_ptr = r1.ptr,
                          !.result_stack = r1.stack,
                          !.ev = [StepEvent(M, p, "depth") EXCEPT
                                    !.failed = Failures(<<r1>>),
                                    !.val = Color(0, 0, 0)]], p)

\* lines 297-302, 354-355: the ray hits nothing: break
ProcessMiss(M, p) ==
  LET M1 == Popped(M, p)
  IN  [M1 EXCEPT !.pc[p] = "broke",
                 !.ev = [StepEvent(M, p, "miss") EXCEPT !.hits = 1]]

\* the reflection frame pushed above the refraction frame
ProcessScatter_refract_first(M, p, f) ==
  LET frame == TopFrame(M, p)
      M1 == Popped(M, p)
      rec == WorldHit(frame.ray)
      m_type == rec.mat.m_type
      depth == frame.depth
      kr == FresnelOf[world[frame.ray]]
      merge_frame == StatusFrame(TASK_MERGE, depth + 1, ZeroRay, kr)
      s1 == StatusStack_push(M1.status_ptr, M1.status_stack, max_stack_size,
                             p, merge_frame)
      reflect_frame == StatusFrame(TASK_PROCESS, depth + 1,
                                   ReflectRay(frame.ray, f), 0)
      refract_frame == StatusFrame(TASK_PROCESS, depth + 1,
                                   RefractRay(frame.ray), 0)
      s2 == IF m_type = REFLECTION_AND_REFRACTION
            THEN StatusStack_push(s1.ptr, s1.stack, max_stack_size, p,
                                  refract_frame)
            ELSE [succeed |-> TRUE, ptr |-> s1.ptr, stack |-> s1.stack]
      s3 == StatusStack_push(s2.ptr, s2.stack, max_stack_size, p, reflect_frame)
      r1 == IF m_type = REFLECTION_AND_REFRACTION
            THEN [succeed |-> TRUE, ptr |-> M1.result_ptr,
                  stack |-> M1.result_stack]
            ELSE ResultStack_push(M1.result_ptr, M1.result_stack,
                                  max_stack_size, p,
                                  VScale(990, background_color))
  IN  LoopTest([M1 EXCEPT !.status_ptr = s3.ptr,
                          !.status_stack = s3.stack,
                          !.result_ptr = r1.ptr,
                          !.result_stack = r1.stack,
                          !.drawn[p] = Append(@, f),
                          !.ev = [StepEvent(M, p, "scatter") EXCEPT
                                    !.hits = 1,
                                    !.kr = kr,
                                    !.failed = Failures(<<s1, s2, s3, r1>>)]],
               p)

\* the children pushed at the depth of their parent: nothing bounds the chain
ProcessScatter_same_depth(M, p, f) ==
  LET frame == TopFrame(M, p)
      M1 == Popped(M, p)
      rec == WorldHit(frame.ray)
      m_type == rec.mat.m_type
      depth == frame.depth - 1
      kr == FresnelOf[world[frame.ray]]
      merge_frame == StatusFrame(TASK_MERGE, depth + 1, ZeroRay, kr)
      s1 == StatusStack_push(M1.status_ptr, M1.status_stack, max_stack_size,
                             p, merge_frame)
      reflect_frame == StatusFrame(TASK_PROCESS, depth + 1,
                                   ReflectRay(frame.ray, f), 0)
      s2 == StatusStack_push(s1.ptr, s1.stack, max_stack_size, p, reflect_frame)
      refract_frame == StatusFrame(TASK_PROCESS, depth + 1,
                                   RefractRay(frame.ray), 0)
      s3 == IF m_type = REFLECTION_AND_REFRACTION
            THEN StatusStack_push(s2.ptr, s2.stack, max_stack_size, p,
                                  refract_frame)
            ELSE [succeed |-> TRUE, ptr |-> s2.ptr, stack |-> s2.stack]
      r1 == IF m_type = REFLECTION_AND_REFRACTION
            THEN [succeed |-> TRUE, ptr |-> M1.result_ptr,
                  stack |-> M1.result_stack]
            ELSE ResultStack_push(M1.result_ptr, M1.result_stack,
                                  max_stack_size, p,
                                  VScale(990, background_color))
  IN  LoopTest([M1 EXCEPT !.status_ptr = s3.ptr,
                          !.status_stack = s3.stack,
                          !.result_ptr = r1.ptr,
                          !.result_stack = r1.stack,
                          !.drawn[p] = Append(@, f),
                          !.ev = [StepEvent(M, p, "scatter") EXCEPT
                                    !.hits = 1,
                                    !.kr = kr,
                                    !.failed = Failures(<<s1, s2, s3, r1>>)]],
               p)

\* lines 303-345: a hit on a REFLECTION or REFLECTION_AND_REFRACTION material;
\* f is the random unit vector drawn for the reflection direction
ProcessScatter(M, p, f) ==
  LET frame == TopFrame(M, p)
      M1 == Popped(M, p)
      rec == WorldHit(frame.ray)
      m_type == rec.mat.m_type
      depth == frame.depth
      kr == FresnelOf[world[frame.ray]]
      merge_frame == StatusFrame(TASK_MERGE, depth + 1, ZeroRay, kr)
      s1 == StatusStack_push(M1.status_ptr, M1.status_stack, max_stack_size,
                             p, merge_frame)
      reflect_frame == StatusFrame(TASK_PROCESS, depth + 1,
                                   ReflectRay(frame.ray, f), 0)
      s2 == StatusStack_push(s1.ptr, s1.stack, max_stack_size, p, reflect_frame)
      refract_frame == StatusFrame(TASK_PROCESS, depth + 1,
                                   RefractRay(frame.ray), 0)
      s3 == IF m_type = REFLECTION_AND_REFRACTION
            THEN StatusStack_push(s2.ptr, s2.stack, max_stack_size, p,
                                  refract_frame)
            ELSE [succeed |-> TRUE, ptr |-> s2.ptr, stack |-> s2.stack]
      r1 == IF m_type = REFLECTION_AND_REFRACTION
            THEN [succeed |-> TRUE, ptr |-> M1.result_ptr,
                  stack |-> M1.result_stack]
            ELSE ResultStack_push(M1.result_ptr, M1.result_stack,
                                  max_stack_size, p,
                                  VScale(990, background_color))
  IN  LoopTest([M1 EXCEPT !.status_ptr = s3.ptr,
                          !.status_stack = s3.stack,
                          !.result_ptr = r1.ptr,
                          !.result_stack = r1.stack,
                          !.drawn[p] = Append(@, f),
                          !.ev = [StepEvent(M, p, "scatter") EXCEPT
                                    !.hits = 1,
                                    !.kr = kr,
                                    !.failed = Failures(<<s1, s2, s3, r1>>)]],
               p)

\* lines 347-353: a hit on any other material: local shading
ProcessShade(M, p) ==
  LET frame == TopFrame(M, p)
      M1 == Popped(M, p)
      rec == WorldHit(frame.ray)
      color == ShadedOf[world[frame.ray]]
      r1 == ResultStack_push(M1.result_ptr, M1.result_stack, max_stack_size,
                             p, color)
  IN  LoopTest([M1 EXCEPT !.result_ptr = r1.ptr,
                          !.result_stack = r1.stack,
                          !.ev = [StepEvent(M, p, "shade") EXCEPT
                                    !.hits = 1 + Len(SceneLights),
                                    !.failed = Failures(<<r1>>),
                                    !.val = color]], p)

\* line 364
Combine(kr, reflect_color, refract_color) ==
  VAdd(VScale(kr, reflect_color), VScale(FP - kr, refract_color))

\* lines 357-365: a MERGE frame; oob1 and oob2 are what the two top() reads
\* yield if the pointer is then -1
ProcessMerge(M, p, oob1, oob2) ==
  LET frame == TopFrame(M, p)
      M1 == Popped(M, p)
      kr == frame.kr
      refract_color == ResultStack_top(M1.result_ptr, M1.result_stack, p, oob1)
      q1 == ResultStack_pop(M1.result_ptr, p)
      reflect_color == ResultStack_top(q1.ptr, M1.result_stack, p, oob2)
      q2 == ResultStack_pop(q1.ptr, p)
      combined_color == Combine(kr, reflect_color, refract_color)
      r1 == ResultStack_push(q2.ptr, M1.result_stack, max_stack_size, p,
                             combined_color)
  IN  LoopTest([M1 EXCEPT !.result_ptr = r1.ptr,
                          !.result_stack = r1.stack,
                          !.ev = [StepEvent(M, p, "merge") EXCEPT
                                    !.kr = kr,
                                    !.reads = {M1.result_ptr[p], q1.ptr[p]},
                                    !.a = refract_color,
                                    !.b = reflect_color,
                                    !.failed = Failures(<<r1>>),
                                    !.val = combined_color]], p)

\* the final selection without its else branch: pixel_color stays vec3(0)
RayColorFinish_no_fallback(M, p, oob) ==
  LET nonempty == ~ResultStack_empty(M.result_ptr, p)
      pixel_color == IF nonempty
                     THEN ResultStack_top(M.result_ptr, M.result_stack, p, oob)
                     ELSE Black
      rp1 == IF nonempty THEN ResultStack_pop(M.result_ptr, p).ptr
             ELSE M.result_ptr
  IN  [M EXCEPT !.result_ptr = rp1,
                !.frame_buf[p] = pixel_color,
                !.pc[p] = "done",
                !.ev = [Event("finish", p) EXCEPT
                          !.by = M.pc[p],
                          !.sn = M.status_ptr[p] + 1,
                          !.rn = M.result_ptr[p] + 1,
                          !.reads = IF nonempty THEN {M.result_ptr[p]} ELSE {},
                          !.a = pixel_color,
                          !.val = pixel_color]]

\* lines 367-373 and render's line 275: the colour of the pixel
RayColorFinish(M, p, oob) ==
  LET nonempty == ~ResultStack_empty(M.result_ptr, p)
      pixel_color == IF nonempty
                     THEN ResultStack_top(M.result_ptr, M.result_stack, p, oob)
                     ELSE background_color
      rp1 == IF nonempty THEN ResultStack_pop(M.result_ptr, p).ptr
             ELSE M.result_ptr
  IN  [M EXCEPT !.result_ptr = rp1,
                !.frame_buf[p] = pixel_color,
                !.pc[p] = "done",
                !.ev = [Event("finish", p) EXCEPT
                          !.by = M.pc[p],
                          !.sn = M.status_ptr[p] + 1,
                          !.rn = M.result_ptr[p] + 1,
                          !.reads = IF nonempty THEN {M.result_ptr[p]} ELSE {},
                          !.a = pixel_color,
                          !.val = pixel_color]]

\* what a read of stack[i, j, -1] can yield: the cell is outside the pixel's
\* slots, so it is a cell of another pixel or no cell of the field at all
Garbage == Color(0 - 1, 0 - 1, 0 - 1)
OutOfBounds(M) ==
  {Garbage} \cup {M.result_stack[q][k] : q \in Pixels, k \in Slots}

\* the choices a step has for a read at pointer value ptr: none to make when
\* the pointer is a slot of the pixel
ReadChoices(M, ptr) == IF ptr \in Slots THEN {Garbage} ELSE OutOfBounds(M)

\* 2 ** n
RECURSIVE Pow2(_)
Pow2(n) == IF n = 0 THEN 1 ELSE 2 * Pow2(n - 1)

\* The model stops a lane that has run this many task frames; no lane gets
\* there (C8_FrameBound), so the guard cuts nothing off.
FrameBudget == 3 * Pow2(MaxDepthBound + 1)

\* ------------------------------------------------ the trace of a lane
\* Beside the stacks of a pixel, `ghost` keeps what each entry is: for a
\* task frame its role (the primary frame, the reflection or the refraction
\* frame of a hit, or its MERGE frame), the hit it belongs to (the ordinal
\* of the task frame that made the hit), its ray, and the role and hit its
\* result will stand for; for a result, the role and hit it stands for.
GhostPush(g, cap, value) == IF Len(g) < cap THEN Append(g, value) ELSE g
GhostPop(g) == IF Len(g) > 0 THEN SubSeq(g, 1, Len(g) - 1) ELSE g
GhostTop(g) == g[Len(g)]

ResultTag(role, of) == [role |-> role, of |-> of]
TaskTag(role, of, r, res) == [role |-> role, of |-> of, ray |-> r, res |-> res]

\* lines 283-287
TraceStart(p) ==
  [ghost EXCEPT
     !.status[p] = GhostPush(<<>>, max_stack_size,
                             TaskTag("primary", 0, ray[p],
                                     ResultTag("primary", 0))),
     !.result[p] = <<>>]

\* a frame that only leaves the task stack: the break on a miss
TraceDrop(p) == [ghost EXCEPT !.status[p] = GhostPop(@)]

\* a frame that pushes its own result: the depth limit, the local shading
TraceLeaf(p) ==
  [ghost EXCEPT
     !.status[p] = GhostPop(@),
     !.result[p] = GhostPush(@, max_stack_size,
                             GhostTop(ghost.status[p]).res)]

\* lines 320-345: the frames and the placeholder of hit number id, f the
\* random unit vector drawn
TraceScatter(p, f) ==
  LET t == GhostTop(ghost.status[p])
      id == executed[p] + 1
      glass == WorldHit(t.ray).mat.m_type = REFLECTION_AND_REFRACTION
      s1 == GhostPush(GhostPop(ghost.status[p]), max_stack_size,
                      TaskTag("merge", id, ZeroRay, t.res))
      s2 == GhostPush(s1, max_stack_size,
                      TaskTag("reflect", id, ReflectRay(t.ray, f),
                              ResultTag("reflect", id)))
      s3 == GhostPush(s2, max_stack_size,
                      TaskTag("refract", id, RefractRay(t.ray),
                              ResultTag("refract", id)))
  IN  [ghost EXCEPT
         !.status[p] = IF glass THEN s3 ELSE s2,
         !.result[p] = IF glass THEN @
                       ELSE GhostPush(@, max_stack_size,
                                      ResultTag("placeholder", id))]

\* lines 357-365: two results leave, the result of the hit comes
TraceMerge(p) ==
  [ghost EXCEPT
     !.status[p] = GhostPop(@),
     !.result[p] = GhostPush(GhostPop(GhostPop(@)), max_stack_size,
                             GhostTop(ghost.status[p]).res)]

\* lines 367-369
TraceFinish(p) == [ghost EXCEPT !.result[p] = GhostPop(@)]

\* -------------------------------------------------------- the lanes
Running(p) == pc[p] = "loop" /\ executed[p] < FrameBudget
IsProcess(p) == TopFrame(Mem, p).task_type = TASK_PROCESS
IsMerge(p) == TopFrame(Mem, p).task_type = TASK_MERGE
\* the depth check with `>`: one more level is traced
AtDepthLimit_gt(p) == TopFrame(Mem, p).depth > max_depth
AtDepthLimit(p) == TopFrame(Mem, p).depth >= max_depth
CurrentHit(p) == WorldHit(TopFrame(Mem, p).ray)
Scatters(m_type) == m_type = REFLECTION_AND_REFRACTION \/ m_type = REFLECTION

Start(p) ==
  /\ pc[p] = "idle"
  /\ \E M \in {RayColorStart(Mem, p)} : Apply(M)
  /\ ghost' = TraceStart(p)
  /\ UNCHANGED <<W, max_depth, max_stack_size, background_color, world, ray,
                 sh, fresnel>>

DepthLimit(p) ==
  /\ Running(p) /\ IsProcess(p) /\ AtDepthLimit(p)
  /\ \E M \in {ProcessDepthLimit(Mem, p)} : Apply(M)
  /\ ghost' = TraceLeaf(p)
  /\ UNCHANGED <<W, max_depth, max_stack_size, background_color, world, ray,
                 sh, fresnel>>

Miss(p) ==
  /\ Running(p) /\ IsProcess(p) /\ ~AtDepthLimit(p)
  /\ ~CurrentHit(p).is_hit
  /\ \E M \in {ProcessMiss(Mem, p)} : Apply(M)
  /\ ghost' = TraceDrop(p)
  /\ UNCHANGED <<W, max_depth, max_stack_size, background_color, world, ray,
                 sh, fresnel>>

Scatter(p) ==
  /\ Running(p) /\ IsProcess(p) /\ ~AtDepthLimit(p)
  /\ CurrentHit(p).is_hit /\ Scatters(CurrentHit(p).mat.m_type)
  /\ \E M \in {ProcessScatter(Mem, p, f) : f \in Fuzz} : Apply(M)
  /\ ghost' = TraceScatter(p, drawn'[p][Len(drawn'[p])])
  /\ UNCHANGED <<W, max_depth, max_stack_size, background_color, world, ray,
                 sh, fresnel>>

Shade(p) ==
  /\ Running(p) /\ IsProcess(p) /\ ~AtDepthLimit(p)
  /\ CurrentHit(p).is_hit /\ ~Scatters(CurrentHit(p).mat.m_type)
  /\ \E M \in {ProcessShade(Mem, p)} : Apply(M)
  /\ ghost' = TraceLeaf(p)
  /\ UNCHANGED <<W, max_depth, max_stack_size, background_color, world, ray,
                 sh, fresnel>>

Merge(p) ==
  /\ Running(p) /\ IsMerge(p)
  /\ \E M \in {ProcessMerge(Mem, p, oob1, oob2) :
                    oob1 \in ReadChoices(Mem, result_ptr[p]),
                    oob2 \in ReadChoices(Mem, result_ptr[p] - 1)} : Apply(M)
  /\ ghost' = TraceMerge(p)
  /\ UNCHANGED <<W, max_depth, max_stack_size, background_color, world, ray,
                 sh, fresnel>>

Finish(p) ==
  /\ pc[p] \in {"broke", "drained"}
  /\ \E M \in {RayColorFinish(Mem, p, Garbage)} : Apply(M)
  /\ ghost' = TraceFinish(p)
  /\ UNCHANGED <<W, max_depth, max_stack_size, background_color, world, ray,
                 sh, fresnel>>

\* ----------------------------------------------------- construction
NoGhost == [ops |-> 0, status |-> <<>>, result |-> <<>>]
EmptyGhost(w) ==
  [ops |-> 0, status |-> [p \in 0..(w - 1) |-> <<>>],
   result |-> [p \in 0..(w - 1) |-> <<>>]]
NoShading == [i |-> 0]
NoFresnel == [done |-> FALSE]

\* Renderer.__init__ for a width, a depth and a capacity: the fields are
\* zero-filled and both pointers are -1
Constructed(w, d, c) ==
  /\ W = w
  /\ max_depth = d
  /\ max_stack_size = c
  /\ background_color = DefaultBackground
  /\ status_ptr = [p \in 0..(w - 1) |-> -1]
  /\ status_stack = [p \in 0..(w - 1) |-> [k \in 0..(c - 1) |-> ZeroFrame]]
  /\ result_ptr = [p \in 0..(w - 1) |-> -1]
  /\ result_stack = [p \in 0..(w - 1) |-> [k \in 0..(c - 1) |-> Black]]
  /\ frame_buf = [p \in 0..(w - 1) |-> Black]
  /\ pc = [p \in 0..(w - 1) |-> "idle"]
  /\ drawn = [p \in 0..(w - 1) |-> <<>>]
  /\ executed = [p \in 0..(w - 1) |-> 0]
  /\ ev = Event("init", 0)

\* one pixel, any depth and capacity, any scene
Init ==
  /\ \E d \in 0..MaxDepthBound, c \in 1..MaxStackBound : Constructed(1, d, c)
  /\ world \in [Rays -> Entries]
  /\ ray = [p \in Pixels |-> 1]
  /\ ghost = EmptyGhost(1)
  /\ sh = NoShading
  /\ fresnel = NoFresnel

Next ==
  \/ \E p \in Pixels : Start(p)
  \/ \E p \in Pixels : DepthLimit(p)
  \/ \E p \in Pixels : Miss(p)
  \/ \E p \in Pixels : Scatter(p)
  \/ \E p \in Pixels : Shade(p)
  \/ \E p \in Pixels : Merge(p)
  \/ \E p \in Pixels : Finish(p)

Spec == Init /\ [][Next]_vars

\* the steps of lane p
LaneStep(p) ==
  /\ p \in Pixels
  /\ \/ Start(p) \/ DepthLimit(p) \/ Miss(p) \/ Scatter(p) \/ Shade(p)
     \/ Merge(p) \/ Finish(p)

\* ------------------------------------------------ the stacks alone
\* Any sequence of clear, push and pop on the stacks of a constructed
\* Renderer.  `ghost` keeps, for every pixel, the sequence a LIFO stack of
\* the capacity would hold, and the number of calls made so far.
FrameValues ==
  {StatusFrame(TASK_PROCESS, 0, 1, FP), StatusFrame(TASK_MERGE, 1, ZeroRay, 40)}
ColorValues == {DefaultBackground, Color(445, 493, 541)}

StackEvent(op, stack, p, ok, value) ==
  [Event(op, p) EXCEPT !.stack = stack, !.ok = ok, !.val = value]

StackFrame ==
  UNCHANGED <<W, max_depth, max_stack_size, background_color, world, ray,
              frame_buf, pc, drawn, executed, sh, fresnel>>

StatusClear(p) ==
  /\ ghost.ops < MaxOps
  /\ status_ptr' = StatusStack_clear(status_ptr, p)
  /\ ev' = StackEvent("clear", "status", p, TRUE, Black)
  /\ ghost' = [ghost EXCEPT !.ops = @ + 1, !.status[p] = <<>>]
  /\ UNCHANGED <<status_stack, result_ptr, result_stack>>
  /\ StackFrame

StatusPush(p, value) ==
  /\ ghost.ops < MaxOps
  /\ \E r \in {StatusStack_push(status_ptr, status_stack, max_stack_size,
                                p, value)} :
       /\ status_ptr' = r.ptr
       /\ status_stack' = r.stack
       /\ ev' = StackEvent("push", "status", p, r.succeed, value)
  /\ ghost' = [ghost EXCEPT !.ops = @ + 1,
                            !.status[p] = GhostPush(@, max_stack_size, value)]
  /\ UNCHANGED <<result_ptr, result_stack>>
  /\ StackFrame

StatusPop(p) ==
  /\ ghost.ops < MaxOps
  /\ \E r \in {StatusStack_pop(status_ptr, p)} :
       /\ status_ptr' = r.ptr
       /\ ev' = StackEvent("pop", "status", p, r.succeed, Black)
  /\ ghost' = [ghost EXCEPT !.ops = @ + 1, !.status[p] = GhostPop(@)]
  /\ UNCHANGED <<status_stack, result_ptr, result_stack>>
  /\ StackFrame

ResultClear(p) ==
  /\ ghost.ops < MaxOps
  /\ result_ptr' = ResultStack_clear(result_ptr, p)
  /\ ev' = StackEvent("clear", "result", p, TRUE, Black)
  /\ ghost' = [ghost EXCEPT !.ops = @ + 1, !.result[p] = <<>>]
  /\ UNCHANGED <<status_ptr, status_stack, result_stack>>
  /\ StackFrame

ResultPush(p, value) ==
  /\ ghost.ops < MaxOps
  /\ \E r \in {ResultStack_push(result_ptr, result_stack, max_stack_size,
                                p, value)} :
       /\ result_ptr' = r.ptr
       /\ result_stack' = r.stack
       /\ ev' = StackEvent("push", "result", p, r.succeed, value)
  /\ ghost' = [ghost EXCEPT !.ops = @ + 1,
                            !.result[p] = GhostPush(@, max_stack_size, value)]
  /\ UNCHANGED <<status_ptr, status_stack>>
  /\ StackFrame

ResultPop(p) ==
  /\ ghost.ops < MaxOps
  /\ \E r \in {ResultStack_pop(result_ptr, p)} :
       /\ result_ptr' = r.ptr
       /\ ev' = StackEvent("pop", "result", p, r.succeed, Black)
  /\ ghost' = [ghost EXCEPT !.ops = @ + 1, !.result[p] = GhostPop(@)]
  /\ UNCHANGED <<status_ptr, status_stack, result_stack>>
  /\ StackFrame

EmptyScene == [r \in Rays |-> CHOOSE e \in Entries : ~e.rec.is_hit]

InitStack ==
  /\ \E c \in 1..MaxStackOnly : Constructed(2, 0, c)
  /\ world = EmptyScene
  /\ ray = [p \in Pixels |-> 1]
  /\ ghost = EmptyGhost(2)
  /\ sh = NoShading
  /\ fresnel = NoFresnel

NextStack ==
  \/ \E p \in Pixels : StatusClear(p)
  \/ \E p \in Pixels, value \in FrameValues : StatusPush(p, value)
  \/ \E p \in Pixels : StatusPop(p)
  \/ \E p \in Pixels : ResultClear(p)
  \/ \E p \in Pixels, value \in ColorValues : ResultPush(p, value)
  \/ \E p \in Pixels : ResultPop(p)

SpecStack == InitStack /\ [][NextStack]_vars

\* --------------------------------------------------- bling_phong alone
\* One call of bling_phong on a hit record, for any list of point lights and
\* any outcome of the shadow rays.  `sh` holds the call: the record, the
\* lights, the shadow records, the number i of lights done, the three
\* accumulators before and after the last light, and the colour returned.
ShadeRecs ==
  {HitRecord(TRUE, FP, Origin, Up, TRUE, Matte(n)) : n \in {1, 2}}
ShadeLightSet == {LightAbove, LightSide, LightGrazing}
ShadowSet == {NoShadow, Occluder, Beyond}
LightLists == UNION {[1..n -> ShadeLightSet] : n \in 1..MaxLights}
ShadowLists(n) == [1..n -> ShadowSet]

ShadeCall(rec, lights, shadows) ==
  [i |-> 0, rec |-> rec, lights |-> lights, shadows |-> shadows,
   before |-> ShadeInit, acc |-> ShadeInit, done |-> FALSE, color |-> Black]

ShadeFrame ==
  UNCHANGED <<W, max_depth, max_stack_size, background_color, world, ray,
              status_ptr, status_stack, result_ptr, result_stack, frame_buf,
              pc, drawn, executed, ev, ghost, fresnel>>

\* lines 232-249, one point light
ShadePointLight ==
  /\ ~sh.done /\ sh.i < Len(sh.lights)
  /\ sh' = [sh EXCEPT !.i = @ + 1,
                      !.before = sh.acc,
                      !.acc = ShadeLight(sh.acc, sh.rec, sh.lights[sh.i + 1],
                                         AmbientIa, sh.shadows[sh.i + 1])]
  /\ ShadeFrame

\* lines 251-253
ShadeReturn ==
  /\ ~sh.done /\ sh.i = Len(sh.lights)
  /\ sh' = [sh EXCEPT !.done = TRUE, !.color = ShadeCombine(sh.acc, sh.rec)]
  /\ ShadeFrame

InitShade ==
  /\ Constructed(1, 0, 1)
  /\ world = EmptyScene
  /\ ray = [p \in Pixels |-> 1]
  /\ ghost = NoGhost
  /\ fresnel = NoFresnel
  /\ \E rec \in ShadeRecs, lights \in LightLists :
       \E shadows \in ShadowLists(Len(lights)) :
         sh = ShadeCall(rec, lights, shadows)

NextShade == ShadePointLight \/ ShadeReturn

SpecShade == InitShade /\ [][NextShade]_vars

\* ------------------------------------------------- the lanes together
\* render's loop over the pixels is parallel: NPixels lanes, their steps
\* interleaved in any order, all given the same primary ray, at a depth where
\* a hit can scatter and with capacities below 2 * max_depth.
ParEntries ==
  {e \in Entries : e.rec.mat.m_type # REFLECTION /\ e.shadow[1] = NoShadow}

InitPar ==
  /\ \E c \in 1..(2 * MaxDepthBound - 1) :
       Constructed(NPixels, MaxDepthBound, c)
  /\ world \in [Rays -> ParEntries]
  /\ ray = [p \in Pixels |-> 1]
  /\ ghost = EmptyGhost(NPixels)
  /\ sh = NoShading
  /\ fresnel = NoFresnel

SpecPar == InitPar /\ [][Next]_vars

\* ---------------------------------------------------- a deeper trace
\* One pixel traced one level deeper than in Spec and from any primary ray,
\* so that a ray can miss below a hit that is itself below a hit, with every
\* capacity from 1 to the one with which no push fails.
InitDeep ==
  /\ \E c \in 1..(2 * MaxDepthBound + 3) :
       Constructed(1, MaxDepthBound + 1, c)
  /\ world \in [Rays -> Entries]
  /\ ray \in [Pixels -> Rays]
  /\ ghost = EmptyGhost(1)
  /\ sh = NoShading
  /\ fresnel = NoFresnel

SpecDeep == InitDeep /\ [][Next]_vars

\* --------------------------------------------- the same trace twice
\* render runs again and again on the same stack pair.  Two runs of
\* ray_color for the same primary ray, side by side: pixel Fresh on its
\* freshly constructed stacks, pixel Reused on stacks an earlier trace of
\* any primary ray has left as it ended.  ghost.ops counts the calls of
\* render that are over; from then on the two runs advance one loop
\* iteration at a time, Fresh first.  The scenes are those of the lanes
\* together.
Fresh == 0
Reused == 1

\* the iterations a run has made: the entry, the task frames, the exit
Steps(p) ==
  IF pc[p] = "idle" THEN 0
  ELSE IF pc[p] = "done" THEN executed[p] + 2 ELSE executed[p] + 1

Turn(p) ==
  IF p = Reused
  THEN ghost.ops = 0 \/ Steps(Reused) < Steps(Fresh) \/ pc[Fresh] = "done"
  ELSE ghost.ops = 1 /\ (Steps(Fresh) = Steps(Reused) \/ pc[Reused] = "done")

\* lines 261-273 in the next call of render: the pixel is traced again,
\* its stacks as the trace before left them
RenderAgain ==
  /\ ghost.ops = 0 /\ pc[Reused] = "done"
  /\ pc' = [pc EXCEPT ![Reused] = "idle"]
  /\ ray' = [ray EXCEPT ![Reused] = ray[Fresh]]
  /\ ghost' = [ghost EXCEPT !.ops = 1]
  /\ ev' = Event("render", Reused)
  /\ UNCHANGED <<W, max_depth, max_stack_size, background_color, world,
                 status_ptr, status_stack, result_ptr, result_stack,
                 frame_buf, drawn, executed, sh, fresnel>>

InitAgain ==
  /\ \E d \in 1..MaxDepthBound, c \in 1..MaxStackBound : Constructed(2, d, c)
  /\ world \in [Rays -> ParEntries]
  /\ \E r \in Rays : ray = [p \in Pixels |-> IF p = Fresh THEN 1 ELSE r]
  /\ ghost = EmptyGhost(2)
  /\ sh = NoShading
  /\ fresnel = NoFresnel

NextAgain ==
  \/ \E p \in Pixels : Turn(p) /\ Start(p)
  \/ \E p \in Pixels : Turn(p) /\ DepthLimit(p)
  \/ \E p \in Pixels : Turn(p) /\ Miss(p)
  \/ \E p \in Pixels : Turn(p) /\ Scatter(p)
  \/ \E p \in Pixels : Turn(p) /\ Shade(p)
  \/ \E p \in Pixels : Turn(p) /\ Merge(p)
  \/ \E p \in Pixels : Turn(p) /\ Finish(p)
  \/ RenderAgain

SpecAgain == InitAgain /\ [][NextAgain]_vars

\* --------------------------------------------------- reflectance alone
\* One evaluation of kr: either a call of reflectance on a cosine of
\* [-1, 1] and a positive index, or lines 304-309 on a hit record of a
\* reflective material met by a unit direction, from either side.
CosineSteps == 8
Cosines ==
  {(k * FP) \div CosineSteps : k \in (0 - CosineSteps)..CosineSteps}
RefIndices == {667, 1300, 1500, 2400}
UnitDirections ==
  {Vec(0, 0, 0 - FP), Vec(600, 0, -800), Vec(800, 0, -600),
   Vec(FP, 0, 0), Vec(600, 0, 800), Vec(0, 0, FP)}
ReflectiveRecs ==
  {HitRecord(TRUE, FP, Origin, Up, ff, mat) :
     ff \in BOOLEAN, mat \in {Mirror, Glass}}

FresnelCall(kind, cosine, ref_idx, rd, rec) ==
  [kind |-> kind, cosine |-> cosine, ref_idx |-> ref_idx, rd |-> rd,
   rec |-> rec, kr |-> 0, done |-> FALSE]

FresnelFrame ==
  UNCHANGED <<W, max_depth, max_stack_size, background_color, world, ray,
              status_ptr, status_stack, result_ptr, result_stack, frame_buf,
              pc, drawn, executed, ev, ghost, sh>>

\* lines 216-221
CallReflectance ==
  /\ ~fresnel.done /\ fresnel.kind = "reflectance"
  /\ fresnel' = [fresnel EXCEPT
                   !.kr = reflectance(fresnel.cosine, fresnel.ref_idx),
                   !.done = TRUE]
  /\ FresnelFrame

\* lines 304-309
HitReflectance ==
  /\ ~fresnel.done /\ fresnel.kind = "hit"
  /\ fresnel' = [fresnel EXCEPT
                   !.kr = Fresnel(fresnel.rd, fresnel.rec),
                   !.done = TRUE]
  /\ FresnelFrame

InitFresnel ==
  /\ Constructed(1, 0, 1)
  /\ world = EmptyScene
  /\ ray = [p \in Pixels |-> 1]
  /\ ghost = NoGhost
  /\ sh = NoShading
  /\ \/ \E cosine \in Cosines, ref_idx \in RefIndices :
          fresnel = FresnelCall("reflectance", cosine, ref_idx, Origin,
                                CHOOSE rec \in ReflectiveRecs : TRUE)
     \/ \E rd \in UnitDirections, rec \in ReflectiveRecs :
          fresnel = FresnelCall("hit", 0, 0, rd, rec)

NextFresnel == CallReflectance \/ HitReflectance

SpecFresnel == InitFresnel /\ [][NextFresnel]_vars

\* Every lane runs its loop to completion: the kernel has no blocking and no
\* suspension point.
FairSpec == Spec /\ WF_vars(Next)

\* =========================================================== claims
ResultCount(p) == result_ptr[p] + 1
StatusCount(p) == status_ptr[p] + 1
ResultTop(p) == result_stack[p][result_ptr[p]]

\* C1: a MERGE frame that finds two entries on the result stack
\* replaces them by kr * top + (1 - kr) * beneath: the top entry, which the
\* reflection frame pushed, is weighted by kr.
C1_MergeWeightsTopByKr ==
  (ev.op = "merge" /\ ev.rn >= 2) =>
    /\ ResultCount(ev.p) = ev.rn - 1
    /\ ResultTop(ev.p) = VAdd(VScale(ev.kr, ev.a), VScale(FP - ev.kr, ev.b))

\* C2: a trace that ended by the break on a miss returns exactly
\* background_color, whatever the result stack holds.
C2_MissYieldsBackground ==
  (ev.op = "finish" /\ ev.by = "broke") =>
    frame_buf[ev.p] = background_color

PrimaryMiss(p) == ~WorldHit(ray[p]).is_hit

\* C3, for every configuration: for every max_depth and capacity, a primary ray that hits
\* nothing gives exactly background_color, and no random draw is made.
C3_PrimaryMissYieldsBackground ==
  \A p \in Pixels :
    (pc[p] = "done" /\ PrimaryMiss(p)) =>
      (frame_buf[p] = background_color /\ drawn[p] = <<>>)

\* C3, from max_depth 1 on: for every max_depth >= 1 and every capacity >= 1, a primary
\* ray that hits nothing gives exactly background_color, and no random draw
\* is made.
C3_PrimaryMissYieldsBackgroundFromDepth1 ==
  \A p \in Pixels :
    (pc[p] = "done" /\ PrimaryMiss(p) /\ max_depth >= 1) =>
      (frame_buf[p] = background_color /\ drawn[p] = <<>>)

C3_Witness ==
  \E p \in Pixels :
    /\ pc[p] = "done" /\ PrimaryMiss(p) /\ max_depth >= 1
    /\ executed[p] = 1 /\ ev.op = "finish" /\ ev.by = "broke"

FramesOnTaskStack(p) == {status_stack[p][k] : k \in 0..status_ptr[p]}

NoFrameBeyondMaxDepth ==
  \A p \in Pixels : \A fr \in FramesOnTaskStack(p) : fr.depth <= max_depth

\* C4: a PROCESS frame at depth = max_depth pushes exactly one
\* colour (0,0,0) on the result stack, makes no intersection and pushes no
\* task frame; no frame deeper than max_depth is ever on the task stack.
C4_DepthLimitPushesBlack ==
  /\ (ev.op = "depth" /\ ev.depth = max_depth) =>
       /\ ResultCount(ev.p) = ev.rn + 1
       /\ ResultTop(ev.p) = Black
       /\ ev.hits = 0
       /\ StatusCount(ev.p) = ev.sn - 1
  /\ (ev.op = "depth" => ev.failed = 0)
  /\ NoFrameBeyondMaxDepth

\* a depth-limited frame below the primary ray, its black pushed over others
C4_Witness ==
  /\ ev.op = "depth" /\ ev.depth = max_depth /\ max_depth >= 2
  /\ ev.failed = 0 /\ ev.rn >= 1 /\ ev.sn >= 2

\* C5, with twice the depth: with max_stack_size >= 2 * max_depth no push ever fails.
C5_TwiceDepthSuffices ==
  max_stack_size >= 2 * max_depth => ev.failed = 0

\* C5, with one slot more: with max_stack_size >= 2 * max_depth + 1 no push on the task
\* stack or on the result stack ever fails, in any scene.
C5_TwiceDepthPlusOneSuffices ==
  max_stack_size >= 2 * max_depth + 1 => ev.failed = 0

\* the task stack filled to the brim by glass hit at every level
C5_Witness ==
  /\ max_depth >= 2 /\ max_stack_size = 2 * max_depth + 1
  /\ ev.op = "scatter" /\ ev.failed = 0
  /\ StatusCount(ev.p) = max_stack_size

AllDone == \A p \in Pixels : pc[p] = "done"

\* the most task frames a trace can run: one primary frame and, for each of
\* the 2 ** d - 1 scattering hits above the depth limit, its three frames
MaxFrames == 3 * Pow2(max_depth) - 2

C8_FrameBound == \A p \in Pixels : executed[p] <= MaxFrames

PushContract(g, ptr, stack, ptr1, stack1, p, ok, value) ==
  IF Len(g) = max_stack_size
  THEN ~ok /\ ptr1 = ptr /\ stack1 = stack
  ELSE /\ ok
       /\ ptr1 = [ptr EXCEPT ![p] = Len(g)]
       /\ stack1[p][Len(g)] = value
       /\ \A q \in Pixels, k \in Slots :
            (q # p \/ k # Len(g)) => stack1[q][k] = stack[q][k]

\* C6: on either stack, a push with D entries held (D successful pushes and
\* no pop since) returns False and leaves the pointer, the top and every stored
\* entry as they were; a push with fewer than D entries held returns True,
\* stores the value as the new top and adds one to the entry count.
C6_PushContract ==
  [][/\ (ev'.op = "push" /\ ev'.stack = "status") =>
          PushContract(ghost.status[ev'.p], status_ptr, status_stack,
                       status_ptr', status_stack', ev'.p, ev'.ok, ev'.val)
     /\ (ev'.op = "push" /\ ev'.stack = "result") =>
          PushContract(ghost.result[ev'.p], result_ptr, result_stack,
                       result_ptr', result_stack', ev'.p, ev'.ok, ev'.val)]_vars

\* a push refused on a full stack of two entries or more
C6_Witness ==
  /\ ev.op = "push" /\ ~ev.ok /\ max_stack_size >= 2
  /\ Len(ghost.status[ev.p]) = max_stack_size
  /\ Len(ghost.result[ev.p]) = max_stack_size

\* the slots 0..ptr of a pixel hold the LIFO sequence g, oldest first
Holds(ptr, stack, p, g) ==
  /\ ptr[p] = Len(g) - 1
  /\ \A k \in 1..Len(g) : stack[p][k - 1] = g[k]

LifoAgreement ==
  \A p \in Pixels :
    /\ Holds(status_ptr, status_stack, p, ghost.status[p])
    /\ Holds(result_ptr, result_stack, p, ghost.result[p])

PopContract(g, ptr, ptr1, p, ok) ==
  IF Len(g) = 0
  THEN ~ok /\ ptr[p] = -1 /\ ptr1 = ptr
  ELSE ok /\ ptr1 = [ptr EXCEPT ![p] = @ - 1]

\* C7: on either stack, a pop on an empty stack returns False and leaves the
\* pointer at -1; a pop on a non-empty stack returns True and removes exactly
\* the entry pushed last, so that the stack always holds what a LIFO stack
\* holds after the same calls.
C7_PopContract ==
  /\ []LifoAgreement
  /\ [][/\ (ev'.op = "pop" /\ ev'.stack = "status") =>
            PopContract(ghost.status[ev'.p], status_ptr, status_ptr',
                        ev'.p, ev'.ok)
       /\ (ev'.op = "pop" /\ ev'.stack = "result") =>
            PopContract(ghost.result[ev'.p], result_ptr, result_ptr',
                        ev'.p, ev'.ok)]_vars

\* a pop refused after as many pops as pushes, an older entry still below
\* the other stack's top
C7_Witness ==
  /\ ev.op = "pop" /\ ~ev.ok /\ ghost.ops >= 3
  /\ \E p \in Pixels : Len(ghost.status[p]) + Len(ghost.result[p]) >= 1

\* the point light bling_phong handled last is in shadow
LastLightInShadow ==
  /\ sh.i >= 1
  /\ InShadow(sh.rec, sh.lights[sh.i], sh.shadows[sh.i])

\* C10: a point light in shadow adds zero to the accumulated diffuse term and
\* zero to the accumulated specular term.
C10_ShadowedLightAddsNothing ==
  LastLightInShadow =>
    /\ sh.acc.diffuse = sh.before.diffuse
    /\ sh.acc.specular = sh.before.specular

\* C9: with the lanes of several pixels interleaved, a lane reads only the
\* slots of its own pixel, and the colour written for a pixel is a function of
\* its ray and its random draws alone: two pixels given the same ray and the
\* same draws get the same colour, the one either gets when traced alone.
C9_LanesAreIsolated ==
  /\ ev.reads \subseteq Slots
  /\ \A p \in Pixels, q \in Pixels :
       (/\ pc[p] = "done" /\ pc[q] = "done"
        /\ ray[p] = ray[q] /\ drawn[p] = drawn[q]) =>
         frame_buf[p] = frame_buf[q]

\* C11: reflectance lies in [0, 1] for every cosine in [-1, 1] and every
\* positive index, and so does the kr computed for a hit.
C11_ReflectanceInUnitInterval ==
  fresnel.done => (0 <= fresnel.kr /\ fresnel.kr <= FP)

\* the capacity with which no push fails (C5)
Roomy == max_stack_size >= 2 * max_depth + 1

\* the stacks of pixel p hold what the trace says: as many entries, a MERGE
\* frame where the trace has one, and each frame the ray of its role
TagsAgree(p) ==
  /\ Len(ghost.status[p]) = status_ptr[p] + 1
  /\ Len(ghost.result[p]) = result_ptr[p] + 1
  /\ \A k \in 1..Len(ghost.status[p]) :
       /\ (status_stack[p][k - 1].task_type = TASK_MERGE)
            <=> (ghost.status[p][k].role = "merge")
       /\ status_stack[p][k - 1].ray = ghost.status[p][k].ray

RefractedOf(id) == {ResultTag("refract", id), ResultTag("placeholder", id)}

\* when the reflection frame of a hit is about to be popped, the refraction
\* frame of that hit is gone and its result (or the placeholder) is on top
RefractionDoneFirst(p) ==
  LET t == GhostTop(ghost.status[p])
      res == ghost.result[p]
  IN  t.role = "reflect" =>
        /\ Len(res) >= 1 /\ GhostTop(res) \in RefractedOf(t.of)
        /\ \A k \in 1..Len(ghost.status[p]) :
             ~(ghost.status[p][k].role = "refract"
               /\ ghost.status[p][k].of = t.of)

\* when the MERGE frame of a hit is about to be popped, the two topmost
\* results are those of its own children: refracted beneath, reflected on top
MergeFindsItsChildren(p) ==
  LET t == GhostTop(ghost.status[p])
      res == ghost.result[p]
  IN  t.role = "merge" =>
        /\ Len(res) >= 2
        /\ res[Len(res) - 1] \in RefractedOf(t.of)
        /\ res[Len(res)] = ResultTag("reflect", t.of)

\* a hit on a reflective material replaces its frame by one MERGE frame, the
\* reflection frame above it and, for REFLECTION_AND_REFRACTION, the
\* refraction frame above that; for REFLECTION the placeholder is pushed
ScatterPushOrder ==
  LET p == ev'.p
      n == status_ptr[p]
      hit == status_stack[p][n]
      f == drawn'[p][Len(drawn'[p])]
      d == hit.depth + 1
  IN  /\ status_stack'[p][n] = StatusFrame(TASK_MERGE, d, ZeroRay, ev'.kr)
      /\ status_stack'[p][n + 1] =
           StatusFrame(TASK_PROCESS, d, ReflectRay(hit.ray, f), 0)
      /\ \A k \in 0..(n - 1) : status_stack'[p][k] = status_stack[p][k]
      /\ IF WorldHit(hit.ray).mat.m_type = REFLECTION_AND_REFRACTION
         THEN /\ status_ptr'[p] = n + 2
              /\ status_stack'[p][n + 2] =
                   StatusFrame(TASK_PROCESS, d, RefractRay(hit.ray), 0)
              /\ result_ptr'[p] = result_ptr[p]
         ELSE /\ status_ptr'[p] = n + 1
              /\ result_ptr'[p] = result_ptr[p] + 1
              /\ result_stack'[p][result_ptr'[p]] =
                   VScale(990, background_color)

\* C12: with a capacity with which no push fails, a hit on a reflective
\* material pushes exactly one MERGE frame, then the reflection frame, then
\* the refraction frame; the refraction subtree is finished before the
\* reflection frame is popped; and a MERGE frame, when popped, finds the
\* results of its own two children on top, refracted beneath reflected.
C12_MergeOrdering ==
  /\ [](Roomy =>
          \A p \in Pixels :
            /\ TagsAgree(p)
            /\ pc[p] = "loop" =>
                 (RefractionDoneFirst(p) /\ MergeFindsItsChildren(p)))
  /\ [][(Roomy /\ ev'.op = "scatter") => ScatterPushOrder]_vars

\* the MERGE frame of a hit below the primary one about to be popped, with
\* an older result beneath those of its children
C12_Witness ==
  /\ Roomy /\ max_depth >= 2
  /\ \E p \in Pixels :
       /\ pc[p] = "loop"
       /\ GhostTop(ghost.status[p]).role = "merge"
       /\ GhostTop(ghost.status[p]).of >= 2
       /\ Len(ghost.result[p]) >= 3

\* C13: when the loop has ended, by drain or by break, the result stack
\* holds no entry or exactly one, and the colour returned is that entry when
\* there is one and background_color otherwise.
C13_LoopEndsWithAtMostOneResult ==
  /\ \A p \in Pixels :
       pc[p] \in {"drained", "broke"} => ResultCount(p) \in {0, 1}
  /\ ev.op = "finish" =>
       frame_buf[ev.p] = IF ev.rn = 1 THEN ev.a ELSE background_color

\* C14: top() is never called on an empty stack: the task stack is not
\* empty when the head of the loop reads its top, and a MERGE frame finds at
\* least two results, so that no read is made at index -1.
C14_TopNeverOnEmpty ==
  /\ \A p \in Pixels : pc[p] = "loop" => ~StatusStack_empty(status_ptr, p)
  /\ ev.op = "merge" => (ev.rn >= 2 /\ -1 \notin ev.reads)

\* C15: on either stack of capacity D, full() is True exactly when D entries
\* are held, which is exactly when the next push would return False, and
\* empty() is True exactly when the next pop would return False.
C15_FullAndEmptyPredictPushAndPop ==
  \A p \in Pixels :
    /\ StatusStack_full(status_ptr, max_stack_size, p)
         <=> (StatusCount(p) = max_stack_size)
    /\ StatusStack_full(status_ptr, max_stack_size, p)
         <=> ~StatusStack_push(status_ptr, status_stack, max_stack_size,
                               p, ZeroFrame).succeed
    /\ StatusStack_empty(status_ptr, p)
         <=> ~StatusStack_pop(status_ptr, p).succeed
    /\ ResultStack_full(result_ptr, max_stack_size, p)
         <=> (ResultCount(p) = max_stack_size)
    /\ ResultStack_full(result_ptr, max_stack_size, p)
         <=> ~ResultStack_push(result_ptr, result_stack, max_stack_size,
                               p, Black).succeed
    /\ ResultStack_empty(result_ptr, p)
         <=> ~ResultStack_pop(result_ptr, p).succeed

\* the entries a stack holds, oldest first
LiveStatus(p) == [k \in 0..status_ptr[p] |-> status_stack[p][k]]

SameDraws ==
  /\ ghost.ops = 1
  /\ Steps(Fresh) = Steps(Reused)
  /\ drawn[Fresh] = drawn[Reused]

\* C16: two runs of ray_color with the same ray, scene, configuration and
\* random draws, one on freshly constructed stacks and one on stacks an
\* earlier trace has used, execute the same task frames in the same order,
\* end together and return the same colour.
C16_TraceIgnoresLeftoverState ==
  SameDraws =>
    /\ pc[Fresh] = pc[Reused]
    /\ LiveStatus(Fresh) = LiveStatus(Reused)
    /\ pc[Fresh] = "done" => frame_buf[Fresh] = frame_buf[Reused]

\* every ray of the scene hits a REFLECTION_AND_REFRACTION material, and the
\* trace has not begun
GlassEverywhere ==
  /\ pc[0] = "idle"
  /\ \A r \in Rays : /\ WorldHit(r).is_hit
                     /\ WorldHit(r).mat.m_type = REFLECTION_AND_REFRACTION

StackBounds ==
  \A p \in Pixels : /\ StatusCount(p) <= 2 * max_depth + 1
                    /\ ResultCount(p) <= max_depth + 1

\* C17: with a capacity of 2 * max_depth + 1 or more no push fails, the task
\* stack never holds more than 2 * max_depth + 1 frames and the result stack
\* never more than max_depth + 1 colours; a scene with a
\* REFLECTION_AND_REFRACTION material at every level reaches both numbers,
\* and with any smaller capacity has a push fail.
C17_TightStackBounds ==
  /\ [](Roomy => (StackBounds /\ ev.failed = 0))
  /\ (GlassEverywhere /\ Roomy) ~> (StatusCount(0) = 2 * max_depth + 1)
  /\ (GlassEverywhere /\ Roomy) ~> (ResultCount(0) = max_depth + 1)
  /\ (GlassEverywhere /\ ~Roomy) ~> (ev.failed > 0)

\* the task stack at 2 * max_depth + 1 frames, at the deepest level traced
C17_Witness ==
  /\ Roomy /\ max_depth = MaxDepthBound
  /\ StatusCount(0) = 2 * max_depth + 1
  /\ ResultCount(0) = 0
  /\ \A r \in Rays : WorldHit(r).mat.m_type = REFLECTION_AND_REFRACTION

PointerInRange(ptr, stack, p) ==
  /\ -1 <= ptr[p] /\ ptr[p] <= max_stack_size - 1
  /\ ptr[p] # -1 => ptr[p] \in DOMAIN stack[p]

\* C18: on either stack of capacity D >= 1, after the construction and any
\* sequence of clear, push and pop, the pointer of every pixel is between -1
\* and D - 1, so that top() on a stack that is not empty reads one of the
\* slots 0..D-1 of the pixel.
C18_PointerStaysInRange ==
  \A p \in Pixels :
    /\ PointerInRange(status_ptr, status_stack, p)
    /\ PointerInRange(result_ptr, result_stack, p)
    /\ ~StatusStack_empty(status_ptr, p) => status_ptr[p] \in Slots
    /\ ~ResultStack_empty(result_ptr, p) => result_ptr[p] \in Slots

\* a push refused with the pointer at D - 1, after the other stack of the
\* pixel was filled and cleared
C18_Witness ==
  /\ max_stack_size >= 2 /\ ghost.ops = MaxOps
  /\ ev.op = "push" /\ ~ev.ok /\ ev.stack = "result"
  /\ result_ptr[ev.p] = max_stack_size - 1
  /\ status_ptr[ev.p] = -1
  /\ \E k \in Slots : status_stack[ev.p][k] # ZeroFrame

====
